---- MODULE Spec2Model ----
(***************************************************************************)
(* Model of lab_5_scrapper/scrapper.py: the Config loader/validator,       *)
(* make_request, the Crawler and HTMLParser stubs, prepare_environment and *)
(* main.  JSON values of the configuration file keep their Python type, so *)
(* that isinstance checks and comparisons behave as they do in Python.     *)
(***************************************************************************)
EXTENDS Integers, Sequences, FiniteSets, TLC

VARIABLES
    entry,        \* "main": run as a script (line 267); "import": used as a module
    config_file,  \* the parsed JSON object stored at path_to_config
    assets,       \* what the filesystem holds at ASSETS_PATH
    pc,           \* position of main(), or "import"
    config,       \* the attribute self.config of the Config instance
    raised,       \* the exception that ended Config(...) or main(), if any
    results,      \* outcomes of the consecutive direct prepare_environment calls
    sent,         \* the keyword arguments of every requests.get issued
    articles      \* identifiers of the Article records produced

vars == <<entry, config_file, assets, pc, config, raised, results, sent, articles>>

(* ---------------------------- bounds ----------------------------------- *)
\* how many keys of the file may differ from the valid Baseline file
MaxDeviations == 2
\* how many consecutive direct calls of prepare_environment
MaxCalls == 2
\* how many requests are issued through make_request
MaxRequests == 1

(* ---------------------- JSON values as Python sees them ---------------- *)
\* a number is kept as a fraction num/den, so 5.5 is JFloat(11, 2)
JInt(n) == [t |-> "int", v |-> <<n, 1>>]
JFloat(n, d) == [t |-> "float", v |-> <<n, d>>]
JBool(b) == [t |-> "bool", v |-> b]
JStr(s) == [t |-> "str", v |-> s]
JList(s) == [t |-> "list", v |-> s]
JDict(items) == [t |-> "dict", v |-> items]
JNull == [t |-> "NoneType", v |-> <<>>]

\* isinstance(x, int): bool is a subclass of int
isinstance_int(x) == x.t \in {"int", "bool"}
isinstance_dict(x) == x.t = "dict"
isinstance_str(x) == x.t = "str"
isinstance_bool(x) == x.t = "bool"

\* x < n and x > n are defined between numbers only (True is 1, False is 0);
\* any other operand type raises TypeError
Orderable(x) == x.t \in {"int", "float", "bool"}
Num(x) == IF x.t = "bool" THEN (IF x.v THEN <<1, 1>> ELSE <<0, 1>>) ELSE x.v
Less(x, n) == Num(x)[1] < n * Num(x)[2]
Greater(x, n) == Num(x)[1] > n * Num(x)[2]

\* str.startswith(tuple of prefixes)
startswith(s, prefixes) ==
    \E p \in prefixes : Len(s) >= Len(p) /\ SubSeq(s, 1, Len(p)) = p

(* ------------------------------ Config --------------------------------- *)
Unset == [t |-> "unset"]

\* ConfigDTO built from the file: the count is stored as total_articles
extract_config_content(file) ==
    [seed_urls |-> file.seed_urls,
     total_articles |-> file.total_articles_to_find_and_parse,
     headers |-> file.headers,
     encoding |-> file.encoding,
     timeout |-> file.timeout,
     should_verify_certificate |-> file.should_verify_certificate,
     headless_mode |-> file.headless_mode]

SeedPrefixesHttpsOnly == {"https://www."}

SeedPrefixes == {"https://www.", "http://www."}

\* the exception _validate_config_content raises, or "None" when it returns
validate_config_content(file) ==
    LET cfg == extract_config_content(file) IN
    IF ~(\A i \in 1..Len(cfg.seed_urls) : startswith(cfg.seed_urls[i], SeedPrefixes))
        THEN "IncorrectSeedURLError"
    ELSE IF ~Orderable(cfg.total_articles)
        THEN "TypeError"
    ELSE IF Less(cfg.total_articles, 1) \/ Greater(cfg.total_articles, 150)
        THEN "NumberOfArticlesOutOfRangeError"
    ELSE IF ~isinstance_int(cfg.total_articles)
        THEN "IncorrectNumberOfArticlesError"
    ELSE IF ~isinstance_dict(cfg.headers)
        THEN "IncorrectHeadersError"
    ELSE IF ~isinstance_str(cfg.encoding)
        THEN "IncorrectEncodingError"
    ELSE IF ~Orderable(cfg.timeout)
        THEN "TypeError"
    ELSE IF Less(cfg.timeout, 1) \/ Greater(cfg.timeout, 60)
        THEN "IncorrectTimeoutError"
    ELSE IF ~isinstance_bool(cfg.headless_mode)
        THEN "IncorrectVerifyError"
    ELSE "None"

get_seed_urls == config.seed_urls
get_num_articles == config.total_articles
get_headers == config.headers
get_encoding == config.encoding
get_timeout == config.timeout
get_verify_certificate == config.should_verify_certificate
get_headless_mode == config.headless_mode

(* ------------------------- prepare_environment ------------------------- *)
DirStates == {"absent", "empty", "nonempty", "notdir"}

os_path_isdir(d) == d \in {"empty", "nonempty"}
\* os.listdir of a directory is truthy exactly when the directory has entries
os_listdir(d) == d = "nonempty"

\* os.rmdir: removes an empty directory, raises otherwise
os_rmdir(d) ==
    CASE d = "empty" -> [raised |-> "None", dir |-> "absent"]
      [] d = "absent" -> [raised |-> "FileNotFoundError", dir |-> d]
      [] d = "notdir" -> [raised |-> "NotADirectoryError", dir |-> d]
      [] d = "nonempty" -> [raised |-> "OSError", dir |-> d]

\* os.mkdir: creates the directory, raises when the path exists
os_mkdir(d) ==
    IF d = "absent" THEN [raised |-> "None", dir |-> "empty"]
    ELSE [raised |-> "FileExistsError", dir |-> d]

\* the condition without its negation
RemoveConditionNotNegated(d) == os_path_isdir(d) /\ os_listdir(d)

\* the condition of line 254 under which the directory is removed
RemoveCondition(d) == ~(os_path_isdir(d) /\ os_listdir(d))

\* the function works on ASSETS_PATH whatever base_path is
prepare_environment(base_path, d) ==
    LET removed == IF RemoveCondition(d) THEN os_rmdir(d)
                   ELSE [raised |-> "None", dir |-> d]
    IN  IF removed.raised # "None" THEN removed ELSE os_mkdir(removed.dir)

(* ---------------------------- make_request ----------------------------- *)
\* requests.get(url=url, headers=headers, timeout=timeout): verify is not
\* passed, so the request goes out with the library default, True
make_request(url) ==
    [url |-> url, headers |-> get_headers, timeout |-> get_timeout,
     verify |-> JBool(TRUE)]

(* ----------------------------- inputs ---------------------------------- *)
SeedURLs == {"https://www.site.com", "http://www.site.com",
             "ftp://www.site.com", "https://site.com"}

SeedLists == {<<>>} \cup {<<u>> : u \in SeedURLs}
             \cup {<<"https://www.site.com", u>> : u \in SeedURLs}
             \cup {<<"ftp://www.site.com", "http://www.site.com">>}

ArticleCounts == {JInt(0), JInt(1), JInt(3), JInt(150), JInt(151), JFloat(11, 2),
                  JFloat(1, 2), JStr("5"), JBool(TRUE), JBool(FALSE), JNull}

HeaderValues == {JDict(<<>>),
                 JDict(<< <<"User-Agent", JStr("Mozilla/5.0")>> >>),
                 JDict(<< <<"User-Agent", JInt(1)>> >>),
                 JDict(<< <<"Accept", JList(<<JStr("text/html")>>)>> >>),
                 JDict(<< <<"Accept", JDict(<< <<"q", JStr("1")>> >>)>> >>),
                 JStr("User-Agent: Mozilla/5.0"), JNull}

EncodingValues == {JStr("utf-8"), JInt(8), JNull}

TimeoutValues == {JInt(0), JInt(1), JInt(5), JInt(60), JInt(61), JFloat(11, 2),
                  JStr("5"), JBool(TRUE)}

FlagValues == {JBool(TRUE), JBool(FALSE), JInt(1), JStr("yes")}

Keys == {"seed_urls", "total_articles_to_find_and_parse", "headers", "encoding",
         "timeout", "should_verify_certificate", "headless_mode"}

Files == [seed_urls : SeedLists,
          total_articles_to_find_and_parse : ArticleCounts,
          headers : HeaderValues,
          encoding : EncodingValues,
          timeout : TimeoutValues,
          should_verify_certificate : FlagValues,
          headless_mode : FlagValues]

\* a valid file: one seed page, three articles wanted
Baseline == [seed_urls |-> <<"https://www.site.com">>,
             total_articles_to_find_and_parse |-> JInt(3),
             headers |-> JDict(<< <<"User-Agent", JStr("Mozilla/5.0")>> >>),
             encoding |-> JStr("utf-8"),
             timeout |-> JInt(5),
             should_verify_certificate |-> JBool(TRUE),
             headless_mode |-> JBool(FALSE)]

Deviations(file) == Cardinality({k \in Keys : file[k] # Baseline[k]})

Paths == {"ASSETS_PATH", "tmp/articles"}
RequestURLs == {"https://www.site.com", "https://www.site.com/news/1"}

(* --------------------------- state machine ----------------------------- *)
Init ==
    /\ entry \in {"main", "import"}
    /\ config_file \in {f \in Files : Deviations(f) <= MaxDeviations}
    /\ assets \in DirStates
    /\ pc = IF entry = "main" THEN "main_263" ELSE "import"
    /\ config = Unset
    /\ raised = "None"
    /\ results = <<>>
    /\ sent = <<>>
    /\ articles = <<>>

\* Config.__init__: validate, then assign self.config
ConfigInit ==
    /\ \/ pc = "main_263"
       \/ pc = "import" /\ config = Unset /\ raised = "None"
    /\ LET exc == validate_config_content(config_file) IN
       IF exc # "None"
       THEN /\ raised' = exc
            /\ config' = config
            /\ pc' = IF pc = "main_263" THEN "aborted" ELSE pc
       ELSE /\ raised' = raised
            /\ config' = extract_config_content(config_file)
            /\ pc' = IF pc = "main_263" THEN "main_264" ELSE pc
    /\ UNCHANGED <<entry, config_file, assets, results, sent, articles>>

\* main, line 264: prepare_environment() is called without its required
\* argument, so the call raises TypeError before the body runs
MainPrepareEnvironment ==
    /\ pc = "main_264"
    /\ raised' = "TypeError"
    /\ pc' = "aborted"
    /\ UNCHANGED <<entry, config_file, assets, config, results, sent, articles>>

\* a direct call prepare_environment(base_path)
PrepareEnvironment(base_path) ==
    /\ pc = "import"
    /\ Len(results) < MaxCalls
    /\ LET r == prepare_environment(base_path, assets) IN
       /\ assets' = r.dir
       /\ results' = Append(results,
              [before |-> assets, raised |-> r.raised, after |-> r.dir])
    /\ UNCHANGED <<entry, config_file, pc, config, raised, sent, articles>>

\* make_request(url, config) with a constructed Config
MakeRequest(url) ==
    /\ pc = "import"
    /\ config # Unset
    /\ Len(sent) < MaxRequests
    /\ sent' = Append(sent, make_request(url))
    /\ UNCHANGED <<entry, config_file, assets, pc, config, raised, results, articles>>

\* Crawler(config).find_articles(): both bodies are empty, None is returned
FindArticles ==
    /\ pc = "import"
    /\ config # Unset
    /\ UNCHANGED vars

\* HTMLParser(full_url, article_id, config).parse(): empty bodies, returns None
Parse(full_url, article_id) ==
    /\ pc = "import"
    /\ config # Unset
    /\ UNCHANGED vars

Next ==
    \/ ConfigInit
    \/ MainPrepareEnvironment
    \/ \E base_path \in Paths : PrepareEnvironment(base_path)
    \/ \E url \in RequestURLs : MakeRequest(url)
    \/ FindArticles
    \/ \E full_url \in RequestURLs, article_id \in 1..3 : Parse(full_url, article_id)

Spec == Init /\ [][Next]_vars

TypeOK ==
    /\ entry \in {"main", "import"}
    /\ assets \in DirStates
    /\ pc \in {"main_263", "main_264", "aborted", "import"}
    /\ Len(results) <= MaxCalls
    /\ Len(sent) <= MaxRequests

(* ------------------- the rules of the specification -------------------- *)
HasSitePrefix(u) ==
    \/ Len(u) >= 11 /\ SubSeq(u, 1, 11) = "http://www."
    \/ Len(u) >= 12 /\ SubSeq(u, 1, 12) = "https://www."

IntegerIn(x, lo, hi) == x.t = "int" /\ x.v[1] >= lo /\ x.v[1] <= hi

FlatStringMapping(x) ==
    x.t = "dict" /\ \A i \in 1..Len(x.v) : x.v[i][2].t = "str"

Rule(k, file) ==
    CASE k = "seed_urls" ->
            \A i \in 1..Len(file.seed_urls) : HasSitePrefix(file.seed_urls[i])
      [] k = "total_articles_to_find_and_parse" ->
            IntegerIn(file.total_articles_to_find_and_parse, 1, 150)
      [] k = "headers" -> FlatStringMapping(file.headers)
      [] k = "encoding" -> file.encoding.t = "str"
      [] k = "timeout" -> IntegerIn(file.timeout, 1, 60)
      [] k = "should_verify_certificate" -> file.should_verify_certificate.t = "bool"
      [] k = "headless_mode" -> file.headless_mode.t = "bool"

OtherKeysValid(ks) == \A k \in Keys \ ks : Rule(k, config_file)

ConfigErrors == {"IncorrectSeedURLError", "NumberOfArticlesOutOfRangeError",
                 "IncorrectNumberOfArticlesError", "IncorrectHeadersError",
                 "IncorrectEncodingError", "IncorrectTimeoutError",
                 "IncorrectVerifyError"}

\* Config(path_to_config) has returned or raised
Constructed == config # Unset
Attempted == Constructed \/ raised # "None"

C2_ArticleCountRule ==
    (Attempted /\ OtherKeysValid({"total_articles_to_find_and_parse"})) =>
        /\ Constructed <=> Rule("total_articles_to_find_and_parse", config_file)
        /\ ~Rule("total_articles_to_find_and_parse", config_file)
              => raised \in ConfigErrors

\* C3: a configuration that violates any rule is never constructed, and main
\* never gets past Config construction to prepare_environment.
C3_AbortBeforeAnyEffect ==
    (Attempted /\ \E k \in Keys : ~Rule(k, config_file)) =>
        ~Constructed /\ pc # "main_264"

\* C4: from an absent, an empty or a non-empty directory a call of
\* prepare_environment does not raise and leaves the directory empty.
C4_PrepareLeavesEmptyDirectory ==
    \A i \in 1..Len(results) :
        results[i].before \in {"absent", "empty", "nonempty"} =>
            results[i].raised = "None" /\ results[i].after = "empty"

\* C5: when a call of prepare_environment succeeds, the directory is empty
\* after it, and the call that immediately follows succeeds too and leaves
\* the directory empty.
C5_PrepareIdempotent ==
    \A i \in 1..Len(results) :
        results[i].raised = "None" =>
            /\ results[i].after = "empty"
            /\ i < Len(results) =>
                  results[i + 1].raised = "None" /\ results[i + 1].after = "empty"

C5_Witness ==
    /\ Len(results) >= 2
    /\ results[1].raised = "None"
    /\ results[2].raised = "None"
    /\ assets = "empty"

\* C6: every request make_request sends carries the configuration's headers,
\* timeout and certificate-verification flag.
C6_RequestCarriesSettings ==
    (\A k \in Keys : Rule(k, config_file)) =>
        \A i \in 1..Len(sent) :
            /\ sent[i].headers = get_headers
            /\ sent[i].timeout = get_timeout
            /\ sent[i].verify = get_verify_certificate

\* C7: with the other keys valid, a timeout that is not an integer in [1, 60]
\* is rejected with the timeout error.
C7_TimeoutRule ==
    (Attempted /\ OtherKeysValid({"timeout"}) /\ ~Rule("timeout", config_file)) =>
        raised = "IncorrectTimeoutError"

\* C8: with the other keys valid, headers that are not a flat string-to-string
\* mapping are rejected with the headers error.
C8_HeadersRule ==
    (Attempted /\ OtherKeysValid({"headers"}) /\ ~Rule("headers", config_file)) =>
        raised = "IncorrectHeadersError"

\* C9: with the other keys valid, a non-boolean headless_mode or
\* should_verify_certificate is rejected with the invalid-flag error, so both
\* getters of a constructed Config return booleans.
C9_FlagRule ==
    (Attempted /\ OtherKeysValid({"should_verify_certificate", "headless_mode"})) =>
        /\ (~Rule("should_verify_certificate", config_file)
              \/ ~Rule("headless_mode", config_file))
              => raised = "IncorrectVerifyError"
        /\ Constructed =>
              get_verify_certificate.t = "bool" /\ get_headless_mode.t = "bool"

\* C10: a run of main with the valid one-seed configuration and target count 3
\* ends with the Article records 1, 2, 3.
C10_EndToEnd ==
    (entry = "main" /\ config_file = Baseline /\ pc = "aborted") =>
        articles = <<1, 2, 3>>
====
